---- MODULE Spec2Model ----
(***************************************************************************)
(* Model of backend/services/affirmative_action_service.py                 *)
(* (AffirmativeActionService): quota configuration, quota-slot planning,   *)
(* diversity boosting and the two-phase quota allocation.                  *)
(*                                                                         *)
(* Numbers.  Percentages, scores and boost weights are Python floats in    *)
(* the source.  They are modelled as integers in thousandths (0.475 is     *)
(* 475, 1.0 is One).  Every input of the model lies on a grid on which the *)
(* integer arithmetic below gives the same result as the IEEE doubles of   *)
(* the source: percentages are multiples of 0.005, capacities stay below   *)
(* 25, and the sums tested against the 0.01 tolerance are multiples of     *)
(* 0.05, so never on the boundary of the tolerance.                        *)
(*                                                                         *)
(* Strings that the source lower-cases or searches (location, gender,      *)
(* social_category) are sequences of one-character strings.                *)
(***************************************************************************)
EXTENDS Integers, Sequences, FiniteSets, TLC

\* ------------------------------------------------------------------ bounds

\* Largest capacity of the first internship of a run.
MaxCapacity == 6
\* Largest total capacity handed to calculate_quota_slots on its own.
MaxTotalCapacity == 12
\* Largest number of match records of one run.
MaxMatches == 5
\* Largest number of keys of a partial update_quotas argument.
MaxKeys == 2
\* Largest capacity of the second internship of a run.
MaxSecondCapacity == 2
\* Largest pool list handed to apply_diversity_boosts on its own.
MaxBoostList == 2
\* Largest number of match records of a scenario run.
MaxScenarioMatches == 3
\* Largest capacity of the internship of a scenario run.
MaxScenarioCapacity == 3
\* Largest number of match records of one of two concurrent runs.
MaxConcurrentMatches == 2
\* Largest number of candidates, and of internships, of one batch.
MaxBatch == 2
\* Largest number of general allocations of a list handed to the report.
MaxReportGeneral == 10
\* Largest number of sc allocations of a list handed to the report.
MaxReportReserved == 2

\* ------------------------------------------------------- program constants

\* 1.0 in thousandths: the clamp of a boosted score and the required sum of
\* the quota percentages.
One == 1000
\* The 0.01 tolerance of update_quotas, in thousandths.
Tolerance == 10

Categories == {"general", "sc", "st", "obc", "ews"}

\* Iteration order of the dict self.quotas (insertion order).
CategoryOrder == <<"general", "sc", "st", "obc", "ews">>

\* for category in ['sc', 'st', 'obc', 'ews']
ReservedOrder == <<"sc", "st", "obc", "ews">>

\* self.quotas after __init__
DefaultQuotas ==
    [c \in Categories |->
        CASE c = "general" -> 475
          [] c = "sc" -> 150
          [] c = "st" -> 75
          [] c = "obc" -> 270
          [] c = "ews" -> 100]

BoostKeys == {"rural", "female", "pwd", "first_generation"}

\* self.diversity_boost after __init__
DefaultDiversityBoost ==
    [k \in BoostKeys |->
        CASE k = "rural" -> 50
          [] k = "female" -> 30
          [] k = "pwd" -> 50
          [] k = "first_generation" -> 40]

\* ----------------------------------------------------------------- helpers

Max(a, b) == IF a >= b THEN a ELSE b

Min(a, b) == IF a <= b THEN a ELSE b

Abs(a) == IF a >= 0 THEN a ELSE -a

\* Python int(n / d) for d > 0: truncation towards zero.
IntTrunc(n, d) == IF n >= 0 THEN n \div d ELSE -((-n) \div d)

RECURSIVE SumSeq(_)
SumSeq(s) == IF s = <<>> THEN 0 ELSE Head(s) + SumSeq(Tail(s))

\* sum(d.values()) of a dict d with string keys.
RECURSIVE SumValues(_)
SumValues(d) ==
    IF DOMAIN d = {} THEN 0
    ELSE LET k == CHOOSE x \in DOMAIN d : TRUE
         IN d[k] + SumValues([x \in DOMAIN d \ {k} |-> d[x]])

\* str.lower() on the characters the model uses.
LowerChar(ch) ==
    CASE ch = "A" -> "a" [] ch = "B" -> "b" [] ch = "C" -> "c"
      [] ch = "D" -> "d" [] ch = "E" -> "e" [] ch = "F" -> "f"
      [] ch = "G" -> "g" [] ch = "H" -> "h" [] ch = "I" -> "i"
      [] ch = "J" -> "j" [] ch = "K" -> "k" [] ch = "L" -> "l"
      [] ch = "M" -> "m" [] ch = "N" -> "n" [] ch = "O" -> "o"
      [] ch = "P" -> "p" [] ch = "Q" -> "q" [] ch = "R" -> "r"
      [] ch = "S" -> "s" [] ch = "T" -> "t" [] ch = "U" -> "u"
      [] ch = "V" -> "v" [] ch = "W" -> "w" [] ch = "X" -> "x"
      [] ch = "Y" -> "y" [] ch = "Z" -> "z"
      [] OTHER -> ch

Lower(s) == [i \in 1..Len(s) |-> LowerChar(s[i])]

\* Python `sub in s` for strings.
Contains(s, sub) ==
    \E i \in 0..(Len(s) - Len(sub)) :
        \A j \in 1..Len(sub) : s[i + j] = sub[j]

\* dict.get(key, default)
Get(d, key, default) == IF key \in DOMAIN d THEN d[key] ELSE default

\* dict.update(e) on a dict d.
DictUpdate(d, e) ==
    [k \in DOMAIN d \cup DOMAIN e |-> IF k \in DOMAIN e THEN e[k] ELSE d[k]]

\* ------------------------------------------------------------ quota slots

\* max(1, int(total_capacity * percentage))
InitialSlots(total_capacity, percentage) ==
    Max(1, IntTrunc(total_capacity * percentage, One))

\* quota_slots[category] * reduction_factor, truncated, without the max(1, .)
ScaledSlotsNoMinimum(slots, total_capacity, total_allocated) ==
    IntTrunc(slots * total_capacity, total_allocated)

\* max(1, int(quota_slots[category] * reduction_factor)) with
\* reduction_factor = total_capacity / total_allocated
ScaledSlots(slots, total_capacity, total_allocated) ==
    Max(1, IntTrunc(slots * total_capacity, total_allocated))

\* _calculate_quota_slots(total_capacity) under the percentages q
calculate_quota_slots(q, total_capacity) ==
    LET quota_slots == [c \in DOMAIN q |-> InitialSlots(total_capacity, q[c])]
        total_allocated == SumValues(quota_slots)
    IN IF total_allocated > total_capacity
       THEN [c \in DOMAIN q |->
                ScaledSlots(quota_slots[c], total_capacity, total_allocated)]
       ELSE quota_slots

\* -------------------------------------------------------- diversity boosts

rural_indicators ==
    { <<"v","i","l","l","a","g","e">>,
      <<"r","u","r","a","l">>,
      <<"g","r","a","m">>,
      <<"t","e","h","s","i","l">>,
      <<"b","l","o","c","k">>,
      <<"m","a","n","d","a","l">>,
      <<"p","a","n","c","h","a","y","a","t">>,
      <<"a","g","r","i","c","u","l","t","u","r","a","l">>,
      <<"f","a","r","m","i","n","g">> }

\* A slip that compares the location as it was written, not lower-cased.
IsRuralCaseSensitive(match) ==
    \E indicator \in rural_indicators :
        Contains(Get(match, "location", <<>>), indicator)

\* _is_rural_candidate(match)
is_rural_candidate(match) ==
    LET location == Lower(Get(match, "location", <<>>))
    IN \E indicator \in rural_indicators : Contains(location, indicator)

\* _is_female_candidate(match)
is_female_candidate(match) ==
    Lower(Get(match, "gender", <<>>)) = <<"f","e","m","a","l","e">>

\* _is_pwd_candidate(match)
is_pwd_candidate(match) ==
    Get(match, "pwd_status", FALSE) \/ Get(match, "disability", FALSE)

\* _is_first_generation_candidate(match)
is_first_generation_candidate(match) ==
    Get(match, "first_generation_learner", FALSE)

\* The condition of the first boost: the flag or the location keywords.
RuralApplies(match) ==
    Get(match, "rural_background", FALSE) \/ is_rural_candidate(match)

\* A slip that adds the rural weight once for the flag and once more for
\* the location keywords.
BoostFactorRuralTwice(match, boost) ==
      (IF Get(match, "rural_background", FALSE) THEN boost["rural"] ELSE 0)
    + (IF is_rural_candidate(match) THEN boost["rural"] ELSE 0)
    + (IF is_female_candidate(match) THEN boost["female"] ELSE 0)
    + (IF is_pwd_candidate(match) THEN boost["pwd"] ELSE 0)
    + (IF is_first_generation_candidate(match)
          THEN boost["first_generation"] ELSE 0)

\* boost_factor after the four checks of _apply_diversity_boosts
BoostFactor(match, boost) ==
      (IF RuralApplies(match) THEN boost["rural"] ELSE 0)
    + (IF is_female_candidate(match) THEN boost["female"] ELSE 0)
    + (IF is_pwd_candidate(match) THEN boost["pwd"] ELSE 0)
    + (IF is_first_generation_candidate(match)
          THEN boost["first_generation"] ELSE 0)

\* boost_reasons after the four checks, in the order they are appended
BoostReasons(match) ==
       (IF RuralApplies(match) THEN <<"Rural background">> ELSE <<>>)
    \o (IF is_female_candidate(match) THEN <<"Gender diversity">> ELSE <<>>)
    \o (IF is_pwd_candidate(match) THEN <<"Person with disability">> ELSE <<>>)
    \o (IF is_first_generation_candidate(match)
           THEN <<"First-generation learner">> ELSE <<>>)

\* boosted_score = min(original_score + boost_factor, 1.0)
BoostedScore(original_score, boost_factor) ==
    Min(original_score + boost_factor, One)

\* boosted_match = match.copy(); boosted_match.update({...})
BoostedMatch(match, boost) ==
    LET original_score == match.score
        boost_factor == BoostFactor(match, boost)
        boosted_score == BoostedScore(original_score, boost_factor)
    IN DictUpdate(match,
           [original_score |-> original_score,
            boosted_score |-> boosted_score,
            score |-> boosted_score,
            diversity_boost |-> boost_factor,
            boost_reasons |-> BoostReasons(match)])

\* A slip that sorts by ascending score.
RECURSIVE InsertByScoreAscending(_, _)
InsertByScoreAscending(sorted, x) ==
    IF sorted = <<>> THEN <<x>>
    ELSE IF Head(sorted).score <= x.score
         THEN <<Head(sorted)>> \o InsertByScoreAscending(Tail(sorted), x)
         ELSE <<x>> \o sorted

\* One insertion of list.sort(key=score, reverse=True): the sort is stable,
\* so x goes behind every record whose score is at least its own.
RECURSIVE InsertByScore(_, _)
InsertByScore(sorted, x) ==
    IF sorted = <<>> THEN <<x>>
    ELSE IF Head(sorted).score >= x.score
         THEN <<Head(sorted)>> \o InsertByScore(Tail(sorted), x)
         ELSE <<x>> \o sorted

\* list.sort(key=lambda x: x.get('score', 0), reverse=True)
RECURSIVE SortByScore(_)
SortByScore(s) ==
    IF s = <<>> THEN <<>>
    ELSE InsertByScore(SortByScore(SubSeq(s, 1, Len(s) - 1)), s[Len(s)])

\* _apply_diversity_boosts(matches)
apply_diversity_boosts(candidate_matches, boost) ==
    SortByScore([i \in 1..Len(candidate_matches) |->
                    BoostedMatch(candidate_matches[i], boost)])

\* ------------------------------------------------------ allocation helpers

\* _get_candidate_category(match)
get_candidate_category(match) ==
    LET social_category == Lower(Get(match, "social_category", <<>>))
    IN IF social_category \in {<<"s","c">>, <<"s","c","h","e","d","u","l","e","d"," ","c","a","s","t","e">>} THEN "sc"
       ELSE IF social_category \in {<<"s","t">>, <<"s","c","h","e","d","u","l","e","d"," ","t","r","i","b","e">>} THEN "st"
       ELSE IF social_category \in {<<"o","b","c">>, <<"o","t","h","e","r"," ","b","a","c","k","w","a","r","d"," ","c","l","a","s","s">>} THEN "obc"
       ELSE IF social_category \in {<<"e","w","s">>, <<"e","c","o","n","o","m","i","c","a","l","l","y"," ","w","e","a","k","e","r"," ","s","e","c","t","i","o","n">>} THEN "ews"
       ELSE "general"

\* _get_internship_capacity(internship_id, internships): the capacity of the
\* first internship with that id, 1 when there is none.
RECURSIVE get_internship_capacity(_, _)
get_internship_capacity(internship_id, internship_list) ==
    IF internship_list = <<>> THEN 1
    ELSE IF Head(internship_list).id = internship_id
         THEN Head(internship_list).capacity
         ELSE get_internship_capacity(internship_id, Tail(internship_list))

\* _create_allocation_record(match, category, allocation_type); the name,
\* title, timestamp and analysis fields carry no decision and are left out.
create_allocation_record(match, category, allocation_type) ==
    [candidate_id |-> match.candidate_id,
     internship_id |-> match.internship_id,
     original_score |-> Get(match, "original_score", match.score),
     final_score |-> match.score,
     category |-> category,
     allocation_type |-> allocation_type,
     diversity_boost |-> Get(match, "diversity_boost", 0),
     boost_reasons |-> Get(match, "boost_reasons", <<>>),
     rural_background |-> Get(match, "rural_background", FALSE)]

\* A slip that forgets the allocated-candidate test.
MustSkipCapacityOnly(match, allocated, used, internship_list) ==
    Get(used, match.internship_id, 0)
        >= get_internship_capacity(match.internship_id, internship_list)

\* A slip that compares the used capacity with > instead of >=.
MustSkipOffByOne(match, allocated, used, internship_list) ==
    \/ match.candidate_id \in allocated
    \/ Get(used, match.internship_id, 0)
           > get_internship_capacity(match.internship_id, internship_list)

\* The skip test of both phases: candidate already allocated or internship
\* full (an internship absent from the tracking map counts as 0 used).
MustSkip(match, allocated, used, internship_list) ==
    \/ match.candidate_id \in allocated
    \/ Get(used, match.internship_id, 0)
           >= get_internship_capacity(match.internship_id, internship_list)

\* The search of lines 243-248: the first reserved category, from position i
\* of ReservedOrder on, whose counter is below its slot count; "KeyError"
\* when the plan has no entry for a category reached by the search, "none"
\* when every reserved category is filled.
RECURSIVE FirstUnfilledReserved(_, _, _)
FirstUnfilledReserved(i, filled, slots) ==
    IF i > Len(ReservedOrder) THEN "none"
    ELSE LET category == ReservedOrder[i]
         IN IF category \notin DOMAIN slots THEN "KeyError"
            ELSE IF filled[category] < slots[category] THEN category
            ELSE FirstUnfilledReserved(i + 1, filled, slots)

\* A slip that searches the reserved slots before it tries the general slot
\* of a general candidate.
Phase2DecisionReservedFirst(candidate_category, filled, slots) ==
    LET general_quota == Get(slots, "general", 0)
        reserved == FirstUnfilledReserved(1, filled, slots)
    IN IF reserved = "KeyError"
       THEN [allocation_type |-> "KeyError", counter |-> "none"]
       ELSE IF reserved # "none"
       THEN [allocation_type |-> "merit_in_quota", counter |-> reserved]
       ELSE IF candidate_category = "general" /\ filled["general"] < general_quota
       THEN [allocation_type |-> "general", counter |-> "general"]
       ELSE IF filled["general"] < general_quota
       THEN [allocation_type |-> "merit", counter |-> "general"]
       ELSE [allocation_type |-> "none", counter |-> "none"]

\* A slip that tries the general merit slot before the reserved slots.
Phase2DecisionMeritFirst(candidate_category, filled, slots) ==
    LET general_quota == Get(slots, "general", 0)
    IN IF candidate_category = "general" /\ filled["general"] < general_quota
       THEN [allocation_type |-> "general", counter |-> "general"]
       ELSE IF filled["general"] < general_quota
       THEN [allocation_type |-> "merit", counter |-> "general"]
       ELSE LET reserved == FirstUnfilledReserved(1, filled, slots)
            IN IF reserved = "KeyError"
               THEN [allocation_type |-> "KeyError", counter |-> "none"]
               ELSE IF reserved # "none"
               THEN [allocation_type |-> "merit_in_quota", counter |-> reserved]
               ELSE [allocation_type |-> "none", counter |-> "none"]

\* The decision of Phase 2 for one record that is not skipped (lines
\* 229-254): the allocation type ("none": left unallocated, "KeyError": the
\* lookup quota_slots[category] failed) and the counter that is incremented.
Phase2Decision(candidate_category, filled, slots) ==
    LET general_quota == Get(slots, "general", 0)
    IN IF candidate_category = "general" /\ filled["general"] < general_quota
       THEN [allocation_type |-> "general", counter |-> "general"]
       ELSE LET reserved == FirstUnfilledReserved(1, filled, slots)
            IN IF reserved = "KeyError"
               THEN [allocation_type |-> "KeyError", counter |-> "none"]
               ELSE IF reserved # "none"
               THEN [allocation_type |-> "merit_in_quota", counter |-> reserved]
               ELSE IF filled["general"] < general_quota
               THEN [allocation_type |-> "merit", counter |-> "general"]
               ELSE [allocation_type |-> "none", counter |-> "none"]

\* ------------------------------------------- _allocate_with_quotas as a whole

\* The trackers of an invocation as lines 174-186 create them; raised tells
\* that the invocation ended with a KeyError.
InitialTrackers(quota_keys, internship_list) ==
    [final_allocations |-> <<>>,
     quota_filled |-> [c \in quota_keys |-> 0],
     internship_capacity_used |->
         [id \in {internship_list[i].id : i \in 1..Len(internship_list)} |-> 0],
     allocated_candidates |-> {},
     raised |-> FALSE]

\* The trackers after one allocation (lines 207-214, 256-262): the record
\* is appended, the candidate marked and the counter incremented before
\* internship_capacity_used[internship_id] += 1 can raise.
TrackersAfter(t, match, category, allocation_type, counter) ==
    [final_allocations |->
         Append(t.final_allocations,
                create_allocation_record(match, category, allocation_type)),
     quota_filled |-> [t.quota_filled EXCEPT ![counter] = @ + 1],
     internship_capacity_used |->
         IF match.internship_id \in DOMAIN t.internship_capacity_used
         THEN [t.internship_capacity_used EXCEPT ![match.internship_id] = @ + 1]
         ELSE t.internship_capacity_used,
     allocated_candidates |-> t.allocated_candidates \cup {match.candidate_id},
     raised |-> match.internship_id \notin DOMAIN t.internship_capacity_used]

\* The inner loop of Phase 1 for one category, from position i on.
RECURSIVE Phase1Pass(_, _, _, _, _, _)
Phase1Pass(t, category, quota_limit, match_list, i, internship_list) ==
    IF t.raised \/ i > Len(match_list) \/ t.quota_filled[category] >= quota_limit
    THEN t
    ELSE IF /\ ~MustSkip(match_list[i], t.allocated_candidates,
                         t.internship_capacity_used, internship_list)
            /\ get_candidate_category(match_list[i]) = category
         THEN Phase1Pass(TrackersAfter(t, match_list[i], category, "quota",
                                       category),
                         category, quota_limit, match_list, i + 1,
                         internship_list)
         ELSE Phase1Pass(t, category, quota_limit, match_list, i + 1,
                         internship_list)

\* Phase 1 (lines 189-214) from the k-th reserved category on.
RECURSIVE Phase1From(_, _, _, _, _)
Phase1From(t, k, slots, match_list, internship_list) ==
    IF t.raised \/ k > Len(ReservedOrder) THEN t
    ELSE Phase1From(Phase1Pass(t, ReservedOrder[k],
                               Get(slots, ReservedOrder[k], 0), match_list, 1,
                               internship_list),
                    k + 1, slots, match_list, internship_list)

\* Phase 2 (lines 216-262) from position i on.
RECURSIVE Phase2From(_, _, _, _, _)
Phase2From(t, i, slots, match_list, internship_list) ==
    IF t.raised \/ i > Len(match_list) THEN t
    ELSE IF MustSkip(match_list[i], t.allocated_candidates,
                     t.internship_capacity_used, internship_list)
    THEN Phase2From(t, i + 1, slots, match_list, internship_list)
    ELSE LET candidate_category == get_candidate_category(match_list[i])
             decision == Phase2Decision(candidate_category, t.quota_filled,
                                        slots)
         IN IF decision.allocation_type = "none"
            THEN Phase2From(t, i + 1, slots, match_list, internship_list)
            ELSE IF decision.allocation_type = "KeyError"
            THEN [t EXCEPT !.raised = TRUE]
            ELSE Phase2From(TrackersAfter(t, match_list[i], candidate_category,
                                          decision.allocation_type,
                                          decision.counter),
                            i + 1, slots, match_list, internship_list)

\* One whole, uninterrupted invocation of _allocate_with_quotas.
AllocateAlone(match_list, slots, internship_list, quota_keys) ==
    Phase2From(Phase1From(InitialTrackers(quota_keys, internship_list), 1,
                          slots, match_list, internship_list),
               1, slots, match_list, internship_list)

\* ------------------------------------------------------- diversity report

\* A Python value handed to a function: a list iterates over its items, a
\* dict over its keys (strings).
PyList(items) == [type |-> "list", items |-> items]

PyDict(keys, value) == [type |-> "dict", items |-> keys, value |-> value]

\* category_breakdown of _generate_diversity_report over a list
CategoryBreakdown(allocation_list) ==
    [c \in {allocation_list[i].category : i \in 1..Len(allocation_list)} |->
        Cardinality({i \in 1..Len(allocation_list) :
                        allocation_list[i].category = c})]

\* allocation_type_breakdown of _generate_diversity_report over a list
AllocationTypeBreakdown(allocation_list) ==
    [t \in {allocation_list[i].allocation_type :
                i \in 1..Len(allocation_list)} |->
        Cardinality({i \in 1..Len(allocation_list) :
                        allocation_list[i].allocation_type = t})]

\* A slip that asks for the full expected count.
CompliantWithoutTolerance(actual_count, expected_count) ==
    actual_count >= expected_count

\* actual_count >= expected_count * 0.9
Compliant(actual_count, expected_count) ==
    10 * actual_count >= 9 * expected_count

\* _check_quota_compliance(category_breakdown, total_allocated) under the
\* percentages q; the two percentage fields of an entry are left out.
check_quota_compliance(q, category_breakdown, total_allocated) ==
    [category \in DOMAIN q |->
        LET actual_count == Get(category_breakdown, category, 0)
            expected_count == IntTrunc(total_allocated * q[category], One)
        IN [expected_count |-> expected_count,
            actual_count |-> actual_count,
            compliant |-> Compliant(actual_count, expected_count)]]

\* _generate_diversity_report(allocations) under the percentages q.  `not
\* allocations` holds for an empty list or dict; otherwise the loop calls
\* allocation.get(...) on every element, which raises AttributeError when
\* the elements are the keys of a dict.  The percentage fields are left out.
generate_diversity_report(allocations, q) ==
    IF Len(allocations.items) = 0
    THEN [error |-> "No allocations to analyze"]
    ELSE IF allocations.type = "dict"
    THEN [raised |-> "AttributeError"]
    ELSE [total_allocated |-> Len(allocations.items),
          category_breakdown |-> CategoryBreakdown(allocations.items),
          allocation_type_breakdown |->
              AllocationTypeBreakdown(allocations.items),
          rural_representation |->
              Cardinality({i \in 1..Len(allocations.items) :
                              Get(allocations.items[i], "rural_background",
                                  FALSE)}),
          diversity_boost_applied |->
              Cardinality({i \in 1..Len(allocations.items) :
                              Get(allocations.items[i], "diversity_boost", 0)
                                  > 0}),
          quota_compliance |->
              check_quota_compliance(q,
                                     CategoryBreakdown(allocations.items),
                                     Len(allocations.items))]

\* ---------------------------------------------------------- batch matching

\* The Python value None.
PyNone == <<"None">>

\* _check_basic_eligibility(candidate, internship): "True", "False", or the
\* AttributeError of None.lower() for a candidate whose location is None.
\* The education of a candidate document is "records" (a list of dicts),
\* "text" (a string) or "empty".
check_basic_eligibility(candidate, internship) ==
    IF internship.min_education /\ candidate.education = "empty" THEN "False"
    ELSE IF internship.location_restriction
    THEN IF candidate.location = PyNone THEN "AttributeError"
         ELSE IF /\ internship.allowed_locations # {}
                 /\ Lower(candidate.location)
                        \notin {Lower(l) : l \in internship.allowed_locations}
         THEN "False"
         ELSE "True"
    ELSE "True"

\* _format_candidate_cv(candidate) raises: the loop over the education calls
\* edu.get on the characters of a string.
FormatCandidateCvRaises(candidate) == candidate.education = "text"

\* The score of _get_ai_match_score for the answer of the inference
\* service: the score of a MATCH label, 0.3 for another label, 0.5 for an
\* empty answer, clamped to [0,1].
AiScore(response) ==
    LET score == IF response.label = "MATCH" THEN response.score
                 ELSE IF response.label = "none" THEN 500
                 ELSE 300
    IN Min(Max(score, 0), One)

\* _get_ai_match_score: the part of the result that later code reads.
get_ai_match_score(response) ==
    [score |-> AiScore(response),
     model_used |-> "LlamaFactoryAI/cv-job-description-matching",
     confidence |-> 800]

\* _create_error_result(candidate, internship, error_msg)
create_error_result(candidate, internship) ==
    [candidate_id |-> candidate.id,
     internship_id |-> internship.id,
     score |-> 0,
     model_used |-> "error_handler",
     confidence |-> 0,
     error |-> TRUE]

\* match_candidate_to_internship(candidate, internship), with the answer the
\* inference service gives for the pair.
match_candidate_to_internship(candidate, internship, response) ==
    IF FormatCandidateCvRaises(candidate)
    THEN create_error_result(candidate, internship)
    ELSE DictUpdate(get_ai_match_score(response),
                    [candidate_id |-> candidate.id,
                     internship_id |-> internship.id])

\* The loops of batch_match_candidates from the p-th pair on (candidates
\* outside, internships inside); the eligibility test is outside every try.
RECURSIVE BatchFrom(_, _, _, _, _)
BatchFrom(candidates, internship_list, responses, p, match_list) ==
    IF p > Len(candidates) * Len(internship_list)
    THEN [raised |-> FALSE, matches |-> match_list]
    ELSE LET candidate == candidates[((p - 1) \div Len(internship_list)) + 1]
             internship == internship_list[((p - 1) % Len(internship_list)) + 1]
             eligible == check_basic_eligibility(candidate, internship)
         IN IF eligible = "AttributeError"
            THEN [raised |-> TRUE, matches |-> match_list]
            ELSE IF eligible = "False"
            THEN BatchFrom(candidates, internship_list, responses, p + 1,
                           match_list)
            ELSE BatchFrom(candidates, internship_list, responses, p + 1,
                           Append(match_list,
                                  match_candidate_to_internship(
                                      candidate, internship,
                                      responses[internship.id])))

\* batch_match_candidates(candidates, internships): the sorted match list,
\* or the exception of the eligibility test.
batch_match_candidates(candidates, internship_list, responses) ==
    LET batch == BatchFrom(candidates, internship_list, responses, 1, <<>>)
    IN IF batch.raised
       THEN [raised |-> TRUE, matches |-> <<>>]
       ELSE [raised |-> FALSE, matches |-> SortByScore(batch.matches)]

\* ------------------------------------------------------------------ inputs

LocCity == <<"P","u","n","e">>

\* "Barnala village, Punjab"
LocVillage == <<"B","a","r","n","a","l","a"," ","v","i","l","l","a","g","e",","," ","P","u","n","j","a","b">>

\* "GRAM PANCHAYAT"
LocUpper == <<"G","R","A","M"," ","P","A","N","C","H","A","Y","A","T">>

\* The candidate profile a match record carries.
Profile(candidate_id, social_category, location, rural_background, gender, pwd_status, disability, first_generation_learner) ==
    [candidate_id |-> candidate_id,
     social_category |-> social_category,
     location |-> location,
     rural_background |-> rural_background,
     gender |-> gender,
     pwd_status |-> pwd_status,
     disability |-> disability,
     first_generation_learner |-> first_generation_learner]

CandidateProfiles ==
    [c1 |-> Profile("c1", <<>>, LocCity, FALSE, <<"M","a","l","e">>, FALSE, FALSE, FALSE),
     c2 |-> Profile("c2", <<"S","C">>, LocCity, FALSE, <<"m","a","l","e">>, TRUE, FALSE, TRUE),
     c3 |-> Profile("c3", <<"G","e","n","e","r","a","l">>, LocVillage, TRUE, <<>>, FALSE, FALSE, FALSE),
     c4 |-> Profile("c4", <<"s","c">>, LocCity, FALSE, <<"F","e","m","a","l","e">>, FALSE, FALSE, FALSE),
     c5 |-> Profile("c5", <<"S","c","h","e","d","u","l","e","d"," ","T","r","i","b","e">>, LocVillage, FALSE, <<"m","a","l","e">>, FALSE, FALSE, FALSE),
     c6 |-> Profile("c6", <<"o","b","c">>, LocCity, FALSE, <<>>, FALSE, TRUE, FALSE),
     c7 |-> Profile("c7", <<"E","W","S">>, LocCity, FALSE, <<"m","a","l","e">>, FALSE, FALSE, FALSE),
     a0 |-> Profile("a0", <<>>, LocCity, FALSE, <<"m","a","l","e">>, FALSE, FALSE, FALSE),
     a1 |-> Profile("a1", <<"g","e","n","e","r","a","l">>, LocCity, FALSE, <<"m","a","l","e">>, FALSE, FALSE, FALSE),
     a2 |-> Profile("a2", <<"s","c">>, LocCity, FALSE, <<"m","a","l","e">>, FALSE, FALSE, FALSE),
     a3 |-> Profile("a3", <<"G","e","n","e","r","a","l">>, LocCity, FALSE, <<"m","a","l","e">>, FALSE, FALSE, FALSE),
     a4 |-> Profile("a4", <<"S","C">>, LocCity, FALSE, <<"m","a","l","e">>, FALSE, FALSE, FALSE),
     a5 |-> Profile("a5", <<"s","c">>, LocCity, FALSE, <<"m","a","l","e">>, FALSE, FALSE, FALSE)]

\* A raw match record: the profile, the internship and the raw score.
Match(candidate, internship_id, score) ==
    DictUpdate(CandidateProfiles[candidate],
               [internship_id |-> internship_id, score |-> score])

\* The match records a run draws from.  Internship "i3" is in no internship
\* list.
MatchPool ==
    << Match("c1", "i1", 900),
       Match("c2", "i1", 800),
       Match("c3", "i1", 700),
       Match("c4", "i1", 650),
       Match("c5", "i1", 600),
       Match("c6", "i1", 600),
       Match("c7", "i1", 950),
       Match("c1", "i2", 850),
       Match("c2", "i2", 950),
       Match("c4", "i2", 640),
       Match("c3", "i3", 700) >>

\* The records of MatchPool at the positions in S, in pool order.
RECURSIVE PoolList(_)
PoolList(S) ==
    IF S = {} THEN <<>>
    ELSE LET i == CHOOSE x \in S : \A y \in S : x >= y
         IN Append(PoolList(S \ {i}), MatchPool[i])

\* The match lists of a run: up to MaxMatches records of the pool.
MatchLists ==
    {PoolList(S) : S \in {T \in SUBSET (1..Len(MatchPool)) :
                             Cardinality(T) <= MaxMatches}}

Internship(id, capacity) == [id |-> id, capacity |-> capacity]

\* The internship lists of a run: "i1" alone with capacity 0..MaxCapacity,
\* or "i1" and "i2" with small capacities.
InternshipLists ==
    {<<Internship("i1", c)>> : c \in 0..MaxCapacity}
    \cup {<<Internship("i1", c), Internship("i2", d)>> :
            c \in 1..2, d \in 1..MaxSecondCapacity}

\* The records of the scenarios: no record carries a boost indicator, so the
\* boosted score is the raw score.  "a1", "a2", "a3" are the candidates of
\* Scenario A; "a0" ties with "a1" and "a4" with "a2"; "a5" is a further sc
\* candidate below "a2".
ScenarioPool ==
    << Match("a1", "i1", 900),
       Match("a2", "i1", 800),
       Match("a3", "i1", 700),
       Match("a0", "i1", 900),
       Match("a4", "i1", 800),
       Match("a5", "i1", 750) >>

\* The sequences of up to n distinct elements of S, in every order.
RECURSIVE Arrangements(_, _)
Arrangements(S, n) ==
    IF n = 0 THEN {<<>>}
    ELSE {<<>>} \cup UNION {{<<x>> \o t : t \in Arrangements(S \ {x}, n - 1)} :
                              x \in S}

\* The match lists of a scenario run: up to MaxScenarioMatches records of
\* the scenario pool in every arrival order.
ScenarioLists ==
    {[i \in 1..Len(a) |-> ScenarioPool[a[i]]] :
        a \in Arrangements(1..Len(ScenarioPool), MaxScenarioMatches)}

\* The internship lists of a scenario run: none, or "i1" alone.
ScenarioInternships ==
    {<<>>} \cup {<<Internship("i1", c)>> : c \in 0..MaxScenarioCapacity}

\* The plan of Scenario A: {sc: 1, general: 1}
ScenarioAPlan == [sc |-> 1, general |-> 1]

\* The quota plans handed to _allocate_with_quotas directly.
ScenarioPlans ==
    { ScenarioAPlan,
      [general |-> 2, sc |-> 1, st |-> 1, obc |-> 1, ews |-> 1],
      [general |-> 1, sc |-> 2, st |-> 1, obc |-> 1, ews |-> 1] }

\* A candidate document of the applicants collection.
Applicant(id, social_category, rural_background, location, education) ==
    [id |-> id,
     social_category |-> social_category,
     rural_background |-> rural_background,
     location |-> location,
     education |-> education]

\* The candidates of a batch: "k2" carries its education as a string, "k3"
\* has no education and the location None.
Applicants ==
    << Applicant("k1", <<"s","c">>, TRUE, LocCity, "records"),
       Applicant("k2", <<"S","T">>, FALSE, LocVillage, "text"),
       Applicant("k3", <<>>, FALSE, PyNone, "empty") >>

\* An internship document with the fields the eligibility test reads.
Opening(id, capacity, min_education, location_restriction) ==
    [id |-> id,
     capacity |-> capacity,
     min_education |-> min_education,
     location_restriction |-> location_restriction,
     allowed_locations |-> {LocCity}]

\* The internships of a batch.
Openings ==
    << Opening("i1", 2, FALSE, FALSE),
       Opening("i2", 1, TRUE, FALSE),
       Opening("i3", 1, FALSE, TRUE) >>

\* The answers of the inference service, per internship.
ResponseTables ==
    { [i1 |-> [label |-> "MATCH", score |-> 900],
       i2 |-> [label |-> "MATCH", score |-> 400],
       i3 |-> [label |-> "none"]],
      [i1 |-> [label |-> "NO_MATCH", score |-> 900],
       i2 |-> [label |-> "MATCH", score |-> 1200],
       i3 |-> [label |-> "MATCH", score |-> 900]] }

\* The candidate lists of a batch.
ApplicantLists ==
    {[i \in 1..Len(a) |-> Applicants[a[i]]] :
        a \in Arrangements(1..Len(Applicants), MaxBatch) \ {<<>>}}

\* The internship lists of a batch.
OpeningLists ==
    {[i \in 1..Len(a) |-> Openings[a[i]]] :
        a \in Arrangements(1..Len(Openings), MaxBatch) \ {<<>>}}

\* ------------------------------------------------------------------- state

VARIABLES
    quotas,                   \* self.quotas
    diversity_boost,          \* self.diversity_boost
    call,                     \* the last configuration or planning call
    pc,                       \* position of the allocation run
    matches,                  \* argument of apply_affirmative_action
    internships,              \* argument of apply_affirmative_action
    total_capacity,           \* local of apply_affirmative_action
    quota_slots,              \* the quota plan of the run
    boosted_matches,          \* result of _apply_diversity_boosts
    final_allocations,        \* locals of _allocate_with_quotas ...
    quota_filled,
    internship_capacity_used,
    allocated_candidates,
    category_index,           \* position of the Phase 1 category loop
    match_index,              \* position of the loop over the matches
    result,                   \* what the run returned or raised
    other                     \* the locals of a second, suspended invocation

config == <<quotas, diversity_boost>>

run == <<pc, matches, internships, total_capacity, quota_slots,
         boosted_matches, final_allocations, quota_filled,
         internship_capacity_used, allocated_candidates, category_index,
         match_index, result>>

vars == <<quotas, diversity_boost, call, pc, matches, internships,
          total_capacity, quota_slots, boosted_matches, final_allocations,
          quota_filled, internship_capacity_used, allocated_candidates,
          category_index, match_index, result, other>>

NoCall == [op |-> "none"]

NoResult == [status |-> "none"]

\* The locals of an invocation that has not begun.
IdleFrame ==
    [pc |-> "idle", matches |-> <<>>, internships |-> <<>>,
     total_capacity |-> 0, quota_slots |-> [c \in {} |-> 0],
     boosted_matches |-> <<>>, final_allocations |-> <<>>,
     quota_filled |-> [c \in {} |-> 0],
     internship_capacity_used |-> [i \in {} |-> 0],
     allocated_candidates |-> {}, category_index |-> 1, match_index |-> 1,
     result |-> NoResult]

\* __init__, and no run started
Init ==
    /\ quotas = DefaultQuotas
    /\ diversity_boost = DefaultDiversityBoost
    /\ call = NoCall
    /\ pc = "idle"
    /\ matches = <<>>
    /\ internships = <<>>
    /\ total_capacity = 0
    /\ quota_slots = [c \in {} |-> 0]
    /\ boosted_matches = <<>>
    /\ final_allocations = <<>>
    /\ quota_filled = [c \in {} |-> 0]
    /\ internship_capacity_used = [i \in {} |-> 0]
    /\ allocated_candidates = {}
    /\ category_index = 1
    /\ match_index = 1
    /\ result = NoResult
    /\ other = IdleFrame

\* ------------------------------------------------------ configuration calls

\* The test of update_quotas: abs(sum(new_quotas.values()) - 1.0) > 0.01
SumOutOfTolerance(new_quotas) == Abs(SumValues(new_quotas) - One) > Tolerance

\* A slip that merges the new percentages before validating them.
QuotasAfterUpdateUnvalidated(old_quotas, new_quotas) ==
    DictUpdate(old_quotas, new_quotas)

\* self.quotas after update_quotas(new_quotas): untouched when the call
\* raises, merged key by key otherwise.
QuotasAfterUpdate(old_quotas, new_quotas) ==
    IF SumOutOfTolerance(new_quotas)
    THEN old_quotas
    ELSE DictUpdate(old_quotas, new_quotas)

\* update_quotas(new_quotas)
update_quotas(new_quotas) ==
    /\ pc = "idle"
    /\ quotas' = QuotasAfterUpdate(quotas, new_quotas)
    /\ call' = [op |-> "update_quotas", arg |-> new_quotas,
                error |-> IF SumOutOfTolerance(new_quotas)
                          THEN "ValueError" ELSE "none"]
    /\ UNCHANGED <<diversity_boost, run, other>>

\* _calculate_quota_slots(capacity) called on the current configuration
CalculateQuotaSlots(capacity) ==
    /\ pc = "idle"
    /\ call' = [op |-> "calculate_quota_slots", arg |-> capacity,
                value |-> calculate_quota_slots(quotas, capacity)]
    /\ UNCHANGED <<config, run, other>>

\* update_diversity_boosts(new_boosts): self.diversity_boost.update(new_boosts),
\* with no test of the weights.
update_diversity_boosts(new_boosts) ==
    /\ pc = "idle"
    /\ diversity_boost' = DictUpdate(diversity_boost, new_boosts)
    /\ call' = [op |-> "update_diversity_boosts", arg |-> new_boosts]
    /\ UNCHANGED <<quotas, run, other>>

\* ----------------------------------------------------------- allocation run

\* apply_affirmative_action(candidate_matches, internship_list), lines 47-57
\* and the set-up of _allocate_with_quotas, lines 174-186.  The grouping of
\* line 50 is handed to _allocate_with_quotas and never read there.
apply_affirmative_action(candidate_matches, internship_list) ==
    /\ pc = "idle"
    /\ matches' = candidate_matches
    /\ internships' = internship_list
    /\ total_capacity' =
           SumSeq([i \in 1..Len(internship_list) |-> internship_list[i].capacity])
    /\ quota_slots' = calculate_quota_slots(quotas, total_capacity')
    /\ boosted_matches' = apply_diversity_boosts(candidate_matches, diversity_boost)
    /\ final_allocations' = <<>>
    /\ quota_filled' = [c \in DOMAIN quotas |-> 0]
    /\ internship_capacity_used' =
           [id \in {internship_list[i].id : i \in 1..Len(internship_list)} |-> 0]
    /\ allocated_candidates' = {}
    /\ category_index' = 1
    /\ match_index' = 1
    /\ pc' = "phase1"
    /\ result' = NoResult
    /\ UNCHANGED <<config, call, other, other>>

\* _allocate_with_quotas(matches, internship_matches, quota_slots,
\* internships) called directly: the set-up of lines 174-186.
allocate_with_quotas(candidate_matches, slots, internship_list) ==
    /\ pc = "idle"
    /\ matches' = candidate_matches
    /\ internships' = internship_list
    /\ quota_slots' = slots
    /\ boosted_matches' = candidate_matches
    /\ final_allocations' = <<>>
    /\ quota_filled' = [c \in DOMAIN quotas |-> 0]
    /\ internship_capacity_used' =
           [id \in {internship_list[i].id : i \in 1..Len(internship_list)} |-> 0]
    /\ allocated_candidates' = {}
    /\ category_index' = 1
    /\ match_index' = 1
    /\ pc' = "phase1"
    /\ result' = NoResult
    /\ call' = [op |-> "allocate_with_quotas"]
    /\ UNCHANGED <<config, other, total_capacity>>

\* The category of the current Phase 1 pass.
Phase1Category == ReservedOrder[category_index]

\* A slip that lets a category take one candidate more than its slots.
Phase1LimitOffByOne == Get(quota_slots, Phase1Category, 0) + 1

\* quota_limit = quota_slots.get(category, 0)
Phase1Limit == Get(quota_slots, Phase1Category, 0)

\* The match of the current loop iteration.
CurrentMatch == boosted_matches[match_index]

\* The inner loop of Phase 1 ends: the list is exhausted or the category's
\* slots are filled (break).  The next category follows, Phase 2 after ews.
Phase1NextCategory ==
    /\ pc = "phase1"
    /\ \/ match_index > Len(boosted_matches)
       \/ quota_filled[Phase1Category] >= Phase1Limit
    /\ match_index' = 1
    /\ IF category_index < Len(ReservedOrder)
       THEN category_index' = category_index + 1 /\ pc' = "phase1"
       ELSE category_index' = category_index /\ pc' = "phase2"
    /\ UNCHANGED <<config, call, other, matches, internships, total_capacity,
                   quota_slots, boosted_matches, final_allocations,
                   quota_filled, internship_capacity_used,
                   allocated_candidates, result>>

\* A slip that forgets the category test of Phase 1.
Phase1TakesAnyCategory(match, category) ==
    ~MustSkip(match, allocated_candidates, internship_capacity_used,
              internships)

\* Whether Phase 1 allocates the current match (lines 193-206).
Phase1Takes(match, category) ==
    /\ ~MustSkip(match, allocated_candidates, internship_capacity_used,
                 internships)
    /\ get_candidate_category(match) = category

\* One Phase 1 iteration that allocates nothing: continue, or a candidate of
\* another category.
Phase1Skip ==
    /\ pc = "phase1"
    /\ match_index <= Len(boosted_matches)
    /\ quota_filled[Phase1Category] < Phase1Limit
    /\ ~Phase1Takes(CurrentMatch, Phase1Category)
    /\ match_index' = match_index + 1
    /\ UNCHANGED <<config, call, other, pc, matches, internships, total_capacity,
                   quota_slots, boosted_matches, final_allocations,
                   quota_filled, internship_capacity_used,
                   allocated_candidates, category_index, result>>

\* internship_capacity_used[internship_id] += 1: KeyError for an internship
\* that is not in the tracking map.
CapacityUsedAfter(used, internship_id) ==
    [used EXCEPT ![internship_id] = @ + 1]

\* One Phase 1 iteration that allocates (lines 207-214).
Phase1Allocate ==
    /\ pc = "phase1"
    /\ match_index <= Len(boosted_matches)
    /\ quota_filled[Phase1Category] < Phase1Limit
    /\ Phase1Takes(CurrentMatch, Phase1Category)
    /\ final_allocations' =
           Append(final_allocations,
                  create_allocation_record(CurrentMatch, Phase1Category, "quota"))
    /\ allocated_candidates' =
           allocated_candidates \cup {CurrentMatch.candidate_id}
    /\ quota_filled' = [quota_filled EXCEPT ![Phase1Category] = @ + 1]
    /\ IF CurrentMatch.internship_id \in DOMAIN internship_capacity_used
       THEN /\ internship_capacity_used' =
                   CapacityUsedAfter(internship_capacity_used,
                                     CurrentMatch.internship_id)
            /\ match_index' = match_index + 1
            /\ UNCHANGED <<pc, result>>
       ELSE /\ pc' = "raised"
            /\ result' = [status |-> "raised", error |-> "KeyError"]
            /\ UNCHANGED <<internship_capacity_used, match_index>>
    /\ UNCHANGED <<config, call, other, matches, internships, total_capacity,
                   quota_slots, boosted_matches, category_index>>

\* The Phase 2 decision for the current match.
CurrentDecision ==
    Phase2Decision(get_candidate_category(CurrentMatch), quota_filled,
                   quota_slots)

\* One Phase 2 iteration that allocates nothing: continue, or no slot left.
Phase2Skip ==
    /\ pc = "phase2"
    /\ match_index <= Len(boosted_matches)
    /\ \/ MustSkip(CurrentMatch, allocated_candidates,
                   internship_capacity_used, internships)
       \/ CurrentDecision.allocation_type = "none"
    /\ match_index' = match_index + 1
    /\ UNCHANGED <<config, call, other, pc, matches, internships, total_capacity,
                   quota_slots, boosted_matches, final_allocations,
                   quota_filled, internship_capacity_used,
                   allocated_candidates, category_index, result>>

\* One Phase 2 iteration that allocates (lines 229-262), or fails on a
\* lookup.
Phase2Allocate ==
    /\ pc = "phase2"
    /\ match_index <= Len(boosted_matches)
    /\ ~MustSkip(CurrentMatch, allocated_candidates,
                 internship_capacity_used, internships)
    /\ CurrentDecision.allocation_type # "none"
    /\ IF CurrentDecision.allocation_type = "KeyError"
       THEN /\ pc' = "raised"
            /\ result' = [status |-> "raised", error |-> "KeyError"]
            /\ UNCHANGED <<final_allocations, quota_filled,
                           allocated_candidates, internship_capacity_used,
                           match_index>>
       ELSE /\ quota_filled' =
                   [quota_filled EXCEPT ![CurrentDecision.counter] = @ + 1]
            /\ final_allocations' =
                   Append(final_allocations,
                          create_allocation_record(
                              CurrentMatch,
                              get_candidate_category(CurrentMatch),
                              CurrentDecision.allocation_type))
            /\ allocated_candidates' =
                   allocated_candidates \cup {CurrentMatch.candidate_id}
            /\ IF CurrentMatch.internship_id
                      \in DOMAIN internship_capacity_used
               THEN /\ internship_capacity_used' =
                           CapacityUsedAfter(internship_capacity_used,
                                             CurrentMatch.internship_id)
                    /\ match_index' = match_index + 1
                    /\ UNCHANGED <<pc, result>>
               ELSE /\ pc' = "raised"
                    /\ result' = [status |-> "raised", error |-> "KeyError"]
                    /\ UNCHANGED <<internship_capacity_used, match_index>>
    /\ UNCHANGED <<config, call, other, matches, internships, total_capacity,
                   quota_slots, boosted_matches, category_index>>

\* The dict _allocate_with_quotas returns (lines 264-273).
AllocationsDict ==
    [final_allocations |-> final_allocations,
     quota_fulfillment |-> quota_filled,
     summary |-> [total_allocated |-> Len(final_allocations),
                  total_capacity |-> SumValues(internship_capacity_used),
                  quota_slots |-> quota_slots,
                  capacity_utilization |-> internship_capacity_used]]

\* Phase 2 has scanned every match: _allocate_with_quotas returns.
AllocateReturn ==
    /\ pc = "phase2"
    /\ match_index > Len(boosted_matches)
    /\ pc' = "allocated"
    /\ UNCHANGED <<config, call, other, matches, internships, total_capacity,
                   quota_slots, boosted_matches, final_allocations,
                   quota_filled, internship_capacity_used,
                   allocated_candidates, category_index, match_index, result>>

\* What line 68 hands to _generate_diversity_report: the whole dict that
\* _allocate_with_quotas returned.
ReportArgument(allocations) ==
    PyDict(<<"final_allocations", "quota_fulfillment", "summary">>, allocations)

\* Lines 67-78: the diversity report and the returned dict.
GenerateReportAndReturn ==
    /\ pc = "allocated"
    /\ call.op # "allocate_with_quotas"
    /\ LET allocations == AllocationsDict
           diversity_report ==
               generate_diversity_report(ReportArgument(allocations), quotas)
       IN IF "raised" \in DOMAIN diversity_report
          THEN /\ pc' = "raised"
               /\ result' = [status |-> "raised",
                             error |-> diversity_report.raised]
          ELSE /\ pc' = "returned"
               /\ result' =
                      [status |-> "returned",
                       final_allocations |-> allocations.final_allocations,
                       quota_fulfillment |-> allocations.quota_fulfillment,
                       diversity_report |-> diversity_report,
                       allocation_summary |-> allocations.summary]
    /\ UNCHANGED <<config, call, other, matches, internships, total_capacity,
                   quota_slots, boosted_matches, final_allocations,
                   quota_filled, internship_capacity_used,
                   allocated_candidates, category_index, match_index>>

\* The locals of the running invocation.
Frame ==
    [pc |-> pc, matches |-> matches, internships |-> internships,
     total_capacity |-> total_capacity, quota_slots |-> quota_slots,
     boosted_matches |-> boosted_matches,
     final_allocations |-> final_allocations, quota_filled |-> quota_filled,
     internship_capacity_used |-> internship_capacity_used,
     allocated_candidates |-> allocated_candidates,
     category_index |-> category_index, match_index |-> match_index,
     result |-> result]

\* A slip that keeps the trackers on the service instance: a resumed
\* invocation goes on with whatever the other one left there.
InstanceShared(saved, live) == live

\* The trackers are locals of the invocation (lines 174-186): a resumed
\* invocation finds them as it left them.
InvocationLocal(saved, live) == saved

\* The scheduler suspends the running invocation and resumes the other one.
Switch ==
    /\ pc # "idle" \/ other.pc # "idle"
    /\ other' = Frame
    /\ pc' = other.pc
    /\ matches' = other.matches
    /\ internships' = other.internships
    /\ total_capacity' = other.total_capacity
    /\ quota_slots' = other.quota_slots
    /\ boosted_matches' = other.boosted_matches
    /\ final_allocations' =
           InvocationLocal(other.final_allocations, final_allocations)
    /\ quota_filled' = InvocationLocal(other.quota_filled, quota_filled)
    /\ internship_capacity_used' =
           InvocationLocal(other.internship_capacity_used,
                           internship_capacity_used)
    /\ allocated_candidates' =
           InvocationLocal(other.allocated_candidates, allocated_candidates)
    /\ category_index' = other.category_index
    /\ match_index' = other.match_index
    /\ result' = other.result
    /\ UNCHANGED <<config, call>>

\* ---------------------------------------------------------- specifications

\* The configuration updates tried before a run.
RunQuotaUpdates ==
    { [general |-> 1000, sc |-> 0, st |-> 0, obc |-> 0, ews |-> 0] }

UpdateQuotasBeforeRun ==
    /\ pc = "idle"
    /\ call = NoCall
    /\ \E new_quotas \in RunQuotaUpdates : update_quotas(new_quotas)

ApplyAffirmativeAction ==
    /\ pc = "idle"
    /\ \E candidate_matches \in MatchLists, internship_list \in InternshipLists :
           apply_affirmative_action(candidate_matches, internship_list)

Next ==
    \/ UpdateQuotasBeforeRun
    \/ ApplyAffirmativeAction
    \/ Phase1NextCategory
    \/ Phase1Skip
    \/ Phase1Allocate
    \/ Phase2Skip
    \/ Phase2Allocate
    \/ AllocateReturn
    \/ GenerateReportAndReturn

\* One service instance: configuration updates, then one allocation run.
Spec == Init /\ [][Next]_vars

\* Configuration calls only: update_quotas and _calculate_quota_slots.

\* The percentages a partial update may carry.
PercentGrid == {0, 500, 1000}

\* Partial updates: values for some of the first MaxKeys categories.
PartialQuotaUpdates ==
    UNION {[K -> PercentGrid] :
             K \in (SUBSET {CategoryOrder[i] : i \in 1..MaxKeys}) \ {{}}}

\* Scenario B of the specification: {general: 0.5, sc: 0.6}
ScenarioBQuotas == [general |-> 500, sc |-> 600]

\* Updates that carry all five categories.
FullQuotaUpdates ==
    { DefaultQuotas,
      [general |-> 1000, sc |-> 0, st |-> 0, obc |-> 0, ews |-> 0],
      [general |-> 200, sc |-> 200, st |-> 200, obc |-> 200, ews |-> 200],
      [general |-> 500, sc |-> 500, st |-> 500, obc |-> 0, ews |-> 0] }

UpdateQuotas ==
    /\ pc = "idle"
    /\ \E new_quotas \in
            PartialQuotaUpdates \cup FullQuotaUpdates \cup {ScenarioBQuotas} :
           update_quotas(new_quotas)

CalculateQuotaSlotsCall ==
    /\ pc = "idle"
    /\ \E capacity \in 0..MaxTotalCapacity : CalculateQuotaSlots(capacity)

NextQuota == UpdateQuotas \/ CalculateQuotaSlotsCall

SpecQuota == Init /\ [][NextQuota]_vars

\* _apply_diversity_boosts called on its own.

BoostScores == {500, 960, 1000}

\* Single match records over every combination of the boost indicators.
BoostRecords ==
    { DictUpdate(Profile("c1", <<>>, location, rural_background, gender,
                         pwd_status, disability, first_generation_learner),
                 [internship_id |-> "i1", score |-> score]) :
        location \in {LocCity, LocVillage, LocUpper},
        rural_background \in BOOLEAN,
        gender \in {<<"F","e","m","a","l","e">>, <<"m","a","l","e">>},
        pwd_status \in BOOLEAN,
        disability \in BOOLEAN,
        first_generation_learner \in BOOLEAN,
        score \in BoostScores }

\* One location per rural keyword, capitalised as an address is written,
\* and one that holds no keyword.
KeywordLocations ==
    { <<"V","i","l","l","a","g","e"," ","R","o","a","d">>,
      <<"R","U","R","A","L">>,
      <<"G","r","a","m"," ","S","a","b","h","a">>,
      <<"T","e","h","s","i","l"," ","O","f","f","i","c","e">>,
      <<"B","l","o","c","k"," ","B">>,
      <<"M","a","n","d","a","l"," ","H","Q">>,
      <<"P","a","n","c","h","a","y","a","t">>,
      <<"A","g","r","i","c","u","l","t","u","r","a","l"," ","Z","o","n","e">>,
      <<"F","a","r","m","i","n","g"," ","B","e","l","t">>,
      <<"B","l","o","k"," ","U","r","b","a","n">> }

\* Single match records that differ in the location only.
KeywordRecords ==
    { DictUpdate(Profile("c1", <<>>, location, FALSE, <<"m","a","l","e">>,
                         FALSE, FALSE, FALSE),
                 [internship_id |-> "i1", score |-> score]) :
        location \in KeywordLocations, score \in BoostScores }

\* The lists handed to _apply_diversity_boosts: one record of BoostRecords
\* or of KeywordRecords, or up to MaxBoostList records of the pool.
BoostLists ==
    {<<r>> : r \in BoostRecords \cup KeywordRecords}
    \cup {PoolList(S) : S \in {T \in SUBSET (1..Len(MatchPool)) :
                                 Cardinality(T) <= MaxBoostList}}

ApplyDiversityBoosts ==
    /\ pc = "idle"
    /\ \E candidate_matches \in BoostLists :
           /\ matches' = candidate_matches
           /\ boosted_matches' =
                  apply_diversity_boosts(candidate_matches, diversity_boost)
           /\ call' = [op |-> "apply_diversity_boosts"]
    /\ UNCHANGED <<config, other, pc, internships, total_capacity, quota_slots,
                   final_allocations, quota_filled, internship_capacity_used,
                   allocated_candidates, category_index, match_index, result>>

\* The weights installed before boosting: a negative one, a large one.
BoostUpdates == { [rural |-> -600, pwd |-> 2000] }

UpdateDiversityBoosts ==
    /\ pc = "idle"
    /\ call.op # "apply_diversity_boosts"
    /\ \E new_boosts \in BoostUpdates : update_diversity_boosts(new_boosts)

NextBoost == UpdateDiversityBoosts \/ ApplyDiversityBoosts

SpecBoost == Init /\ [][NextBoost]_vars

\* Scenario runs: apply_affirmative_action, or _allocate_with_quotas with a
\* given plan, on the scenario records in every arrival order.

ApplyScenario ==
    /\ pc = "idle"
    /\ \E candidate_matches \in ScenarioLists,
          internship_list \in ScenarioInternships :
           apply_affirmative_action(candidate_matches, internship_list)

AllocateScenario ==
    /\ pc = "idle"
    /\ \E candidate_matches \in ScenarioLists,
          internship_list \in ScenarioInternships, slots \in ScenarioPlans :
           allocate_with_quotas(
               apply_diversity_boosts(candidate_matches, diversity_boost),
               slots, internship_list)

NextScenario ==
    \/ ApplyScenario
    \/ AllocateScenario
    \/ Phase1NextCategory
    \/ Phase1Skip
    \/ Phase1Allocate
    \/ Phase2Skip
    \/ Phase2Allocate
    \/ AllocateReturn
    \/ GenerateReportAndReturn

SpecScenario == Init /\ [][NextScenario]_vars

\* Two allocation runs on one service instance, interleaved at every step.

\* The match lists of a concurrent run: up to MaxConcurrentMatches of the
\* Scenario A records, in pool order.
ConcurrentLists ==
    {[i \in 1..Len(a) |-> ScenarioPool[a[i]]] :
        a \in {b \in Arrangements(1..3, MaxConcurrentMatches) :
                 \A i, j \in 1..Len(b) : i < j => b[i] < b[j]}}

ConcurrentInternships == {<<Internship("i1", c)>> : c \in 1..2}

ApplyConcurrent ==
    /\ pc = "idle"
    /\ \E candidate_matches \in ConcurrentLists,
          internship_list \in ConcurrentInternships :
           apply_affirmative_action(candidate_matches, internship_list)

NextConcurrent ==
    \/ ApplyConcurrent
    \/ Switch
    \/ Phase1NextCategory
    \/ Phase1Skip
    \/ Phase1Allocate
    \/ Phase2Skip
    \/ Phase2Allocate
    \/ AllocateReturn
    \/ GenerateReportAndReturn

SpecConcurrent == Init /\ [][NextConcurrent]_vars

\* _generate_diversity_report called on a list of allocation records.

\* n allocation records of one category and type.
ReportRecords(n, category, allocation_type) ==
    [i \in 1..n |-> [category |-> category,
                     allocation_type |-> allocation_type,
                     rural_background |-> FALSE,
                     diversity_boost |-> 0]]

\* The allocation lists handed to the report: general, sc and st records.
ReportLists ==
    { ReportRecords(g, "general", "general")
        \o ReportRecords(r, "sc", "quota")
        \o ReportRecords(t, "st", "merit_in_quota") :
      g \in 0..MaxReportGeneral, r \in 0..MaxReportReserved, t \in 0..1 }

GenerateDiversityReport ==
    /\ pc = "idle"
    /\ \E allocation_list \in ReportLists :
           call' = [op |-> "generate_diversity_report",
                    arg |-> allocation_list,
                    value |-> generate_diversity_report(
                                  PyList(allocation_list), quotas)]
    /\ UNCHANGED <<config, run, other>>

NextReport == UpdateQuotasBeforeRun \/ GenerateDiversityReport

SpecReport == Init /\ [][NextReport]_vars

\* The pipeline: MatchingAPI.post matches a batch and stores the records,
\* AllocationAPI.post reads them back and hands them to the engine.  The
\* engine is also called on hand-built scenario lists.

\* MatchingAPI.post, lines 51-58: not reached with an empty list.
BatchMatchCandidates ==
    /\ pc = "idle"
    /\ call = NoCall
    /\ \E candidates \in ApplicantLists, internship_list \in OpeningLists,
          responses \in ResponseTables :
           LET batch == batch_match_candidates(candidates, internship_list,
                                               responses)
           IN call' = [op |-> "batch_match_candidates",
                       candidates |-> candidates,
                       internships |-> internship_list,
                       responses |-> responses,
                       raised |-> batch.raised,
                       value |-> batch.matches]
    /\ UNCHANGED <<config, run, other>>

\* The internship documents AllocationAPI.post collects (lines 161-167): the
\* internships whose id occurs in a match record.
RECURSIVE MatchedInternships(_, _)
MatchedInternships(internship_list, match_list) ==
    IF internship_list = <<>> THEN <<>>
    ELSE (IF \E i \in 1..Len(match_list) :
                 match_list[i].internship_id = Head(internship_list).id
          THEN <<Head(internship_list)>> ELSE <<>>)
         \o MatchedInternships(Tail(internship_list), match_list)

\* AllocationAPI.post, lines 142-174, on the stored records of the batch.
AllocateBatch ==
    /\ pc = "idle"
    /\ call.op = "batch_match_candidates"
    /\ ~call.raised
    /\ call.value # <<>>
    /\ apply_affirmative_action(
           call.value, MatchedInternships(call.internships, call.value))

ApplyWithoutBatch ==
    /\ call = NoCall
    /\ ApplyScenario

NextBatch ==
    \/ BatchMatchCandidates
    \/ AllocateBatch
    \/ ApplyWithoutBatch
    \/ Phase1NextCategory
    \/ Phase1Skip
    \/ Phase1Allocate
    \/ Phase2Skip
    \/ Phase2Allocate
    \/ AllocateReturn
    \/ GenerateReportAndReturn

SpecBatch == Init /\ [][NextBatch]_vars

\* ------------------------------------------------------------------ claims

\* The ids of the internship list of the run.
InternshipIds == {internships[k].id : k \in 1..Len(internships)}

\* A run is under way or over.
RunStarted == pc # "idle"

\* C1: no candidate_id appears in more than one allocation of the
\* allocation list, across Phase 1 and Phase 2 together.
C1_NoCandidateTwice ==
    \A i, j \in 1..Len(final_allocations) :
        i # j => final_allocations[i].candidate_id
                     # final_allocations[j].candidate_id

\* C1 witness: _allocate_with_quotas has returned, and a candidate that was
\* allocated has a second match whose internship still has room, so only the
\* allocated-candidate set kept it from a second allocation.
C1_Witness ==
    /\ pc = "allocated"
    /\ \E i, j \in 1..Len(boosted_matches) :
          /\ i # j
          /\ boosted_matches[i].candidate_id = boosted_matches[j].candidate_id
          /\ boosted_matches[i].candidate_id \in allocated_candidates
          /\ boosted_matches[j].internship_id \in InternshipIds
          /\ internship_capacity_used[boosted_matches[j].internship_id]
                 < get_internship_capacity(boosted_matches[j].internship_id,
                                           internships)
          /\ \E a \in 1..Len(final_allocations) :
                /\ final_allocations[a].candidate_id
                       = boosted_matches[i].candidate_id
                /\ final_allocations[a].internship_id
                       = boosted_matches[i].internship_id

\* C2: for every internship of the internship list, the number of
\* allocations to it is at most its capacity, after every allocation step.
C2_CapacityRespected ==
    \A k \in 1..Len(internships) :
        Cardinality({i \in 1..Len(final_allocations) :
                        final_allocations[i].internship_id = internships[k].id})
            <= internships[k].capacity

\* C2 witness: an internship of capacity at least 1 is full and a candidate
\* matched to it was left without any allocation.
C2_Witness ==
    /\ pc = "allocated"
    /\ \E k \in 1..Len(internships) :
          /\ internships[k].capacity >= 1
          /\ Cardinality({i \in 1..Len(final_allocations) :
                 final_allocations[i].internship_id = internships[k].id})
                 = internships[k].capacity
          /\ \E j \in 1..Len(boosted_matches) :
                /\ boosted_matches[j].internship_id = internships[k].id
                /\ boosted_matches[j].candidate_id \notin allocated_candidates

\* Every match of the run names an internship of the internship list.
EveryInternshipPresent ==
    \A i \in 1..Len(matches) : matches[i].internship_id \in InternshipIds

\* C3: for a non-empty match list whose internships are all present,
\* apply_affirmative_action completes without raising and returns the
\* allocations with a diversity report whose total_allocated is the number
\* of final allocations.  Stated for internships of capacity at least 1.
C3_ReturnsReport ==
    (/\ pc \in {"returned", "raised"}
     /\ matches # <<>>
     /\ EveryInternshipPresent
     /\ \A k \in 1..Len(internships) : internships[k].capacity >= 1)
        => /\ pc = "returned"
           /\ "total_allocated" \in DOMAIN result.diversity_report
           /\ result.diversity_report.total_allocated
                  = Len(result.final_allocations)

\* The number of allocations tagged with category c whose type is in types.
TaggedCount(c, types) ==
    Cardinality({i \in 1..Len(final_allocations) :
                    /\ final_allocations[i].category = c
                    /\ final_allocations[i].allocation_type \in types})

\* C4 as stated: leaving out only the merit_in_quota allocations, the number
\* of allocations tagged with a category is at most its slot count.  Stated
\* for the allocation list that _allocate_with_quotas returns.
C4_TagCountExceptMeritInQuota ==
    pc = "allocated" =>
        \A c \in Categories :
            TaggedCount(c, {"quota", "general", "merit"}) <= Get(quota_slots, c, 0)

\* C4 amended: counting the allocations of type quota and general (neither
\* merit_in_quota nor merit), the number of allocations tagged with a
\* category is at most its slot count.
C4_TagCountQuotaAndGeneral ==
    RunStarted =>
        \A c \in Categories :
            TaggedCount(c, {"quota", "general"}) <= Get(quota_slots, c, 0)

\* C4 witness: a run that ended with a reserved category whose quota
\* allocations use up its slots while a further candidate of that category
\* was allocated in Phase 2.
C4_Witness ==
    /\ pc = "allocated"
    /\ \E c \in {"sc", "st", "obc", "ews"} :
          /\ TaggedCount(c, {"quota"}) = quota_slots[c]
          /\ TaggedCount(c, {"merit", "merit_in_quota"}) >= 1
    /\ TaggedCount("general", {"general"}) = quota_slots["general"]

\* The last call was _calculate_quota_slots.
PlanCalled == call.op = "calculate_quota_slots"

\* C5: under the configured (default) percentages and a total capacity of at
\* least 1, the slot counts of the plan sum to at most the total capacity.
C5_DefaultPlanWithinCapacity ==
    (PlanCalled /\ quotas = DefaultQuotas /\ call.arg >= 1)
        => SumValues(call.value) <= call.arg

\* C6: under every percentage set that sums to 1.0 within 0.01 and a total
\* capacity of at least the number of categories, the slot counts of the
\* plan sum to at most the total capacity.
C6_AcceptedPlanWithinCapacity ==
    (PlanCalled /\ ~SumOutOfTolerance(quotas)
               /\ call.arg >= Cardinality(Categories))
        => SumValues(call.value) <= call.arg

\* C7: every slot count of a plan is an integer of at least 1, with and
\* without the scale-down.
C7_SlotsAtLeastOne ==
    PlanCalled =>
        \A c \in DOMAIN call.value : call.value[c] \in Nat /\ call.value[c] >= 1

\* C7 witness: a plan whose first slot counts exceeded the capacity and in
\* which the scaled value of a category truncates to 0.
C7_Witness ==
    /\ PlanCalled
    /\ LET first == [c \in Categories |-> InitialSlots(call.arg, quotas[c])]
       IN /\ SumValues(first) > call.arg
          /\ \E c \in Categories :
                IntTrunc(first[c] * call.arg, SumValues(first)) = 0

\* C8: every stored percentage is at least 0 and the stored percentages sum
\* to 1.0 within 0.01, after construction and after any update_quotas calls.
C8_StoredQuotasValid ==
    /\ \A c \in DOMAIN quotas : quotas[c] >= 0
    /\ ~SumOutOfTolerance(quotas)

\* C9: an update_quotas call whose values do not sum to 1.0 within 0.01
\* raises and leaves the stored percentages as they were.
C9_RejectedUpdateKeepsQuotas ==
    [][(call'.op = "update_quotas" /\ SumOutOfTolerance(call'.arg))
          => (call'.error = "ValueError" /\ quotas' = quotas)]_vars

\* C9 witness: Scenario B was submitted to a configuration that an earlier
\* update had changed, and was rejected.
C9_Witness ==
    /\ call.op = "update_quotas"
    /\ call.arg = ScenarioBQuotas
    /\ call.error = "ValueError"
    /\ quotas # DefaultQuotas

\* The indicators that apply to a match record.
ApplicableBoosts(match) ==
    {k \in BoostKeys :
        \/ k = "rural" /\ (match.rural_background \/ is_rural_candidate(match))
        \/ k = "female" /\ is_female_candidate(match)
        \/ k = "pwd" /\ is_pwd_candidate(match)
        \/ k = "first_generation" /\ is_first_generation_candidate(match)}

\* The sum of the weights w over the keys in S.
RECURSIVE SumWeights(_, _)
SumWeights(w, S) ==
    IF S = {} THEN 0
    ELSE LET k == CHOOSE x \in S : TRUE
         IN w[k] + SumWeights(w, S \ {k})

\* C10: the boosted score of every record is min(raw score + sum of the
\* weights of the indicators that apply, 1.0), each indicator counted once.
C10_BoostedScore ==
    call.op = "apply_diversity_boosts" =>
        /\ Len(boosted_matches) = Len(matches)
        /\ \A i \in 1..Len(boosted_matches) :
              LET b == boosted_matches[i]
              IN /\ \E j \in 1..Len(matches) :
                        /\ matches[j].candidate_id = b.candidate_id
                        /\ matches[j].internship_id = b.internship_id
                        /\ matches[j].score = b.original_score
                 /\ b.boosted_score =
                        Min(b.original_score
                                + SumWeights(diversity_boost,
                                             ApplicableBoosts(b)),
                            One)
                 /\ b.score = b.boosted_score

\* C10 witness: a record to which all four indicators apply, the rural one
\* by its flag and by its location, boosted without reaching the clamp.
C10_Witness ==
    /\ call.op = "apply_diversity_boosts"
    /\ \E i \in 1..Len(boosted_matches) :
          /\ ApplicableBoosts(boosted_matches[i]) = BoostKeys
          /\ boosted_matches[i].rural_background
          /\ is_rural_candidate(boosted_matches[i])
          /\ boosted_matches[i].boosted_score < One
          /\ boosted_matches[i].boosted_score
                 > boosted_matches[i].original_score

\* C11: every boosted record whose raw score is in [0,1] has a boosted
\* score in [0,1], under the default weights and under any weights installed
\* through update_diversity_boosts.
C11_BoostedScoreInUnitRange ==
    call.op = "apply_diversity_boosts" =>
        \A i \in 1..Len(boosted_matches) :
            boosted_matches[i].original_score \in 0..One =>
                boosted_matches[i].boosted_score \in 0..One

\* The allocations made so far, as pairs of candidate and allocation type.
AllocatedAs ==
    {<<final_allocations[i].candidate_id, final_allocations[i].allocation_type>> :
        i \in 1..Len(final_allocations)}

\* The inputs of Scenario A: the plan {sc: 1, general: 1}, one internship of
\* capacity 2 and the candidates of boosted scores 0.90 (general), 0.80 (sc),
\* 0.70 (general), handed to _allocate_with_quotas.
ScenarioA ==
    /\ call.op = "allocate_with_quotas"
    /\ quota_slots = ScenarioAPlan
    /\ internships = <<Internship("i1", 2)>>
    /\ Len(boosted_matches) = 3
    /\ {boosted_matches[i].candidate_id : i \in 1..3} = {"a1", "a2", "a3"}

\* C12: Scenario A ends with the sc candidate allocated with type quota, the
\* 0.90 candidate allocated with type general and the 0.70 candidate left
\* unallocated.
C12_ScenarioA ==
    (ScenarioA /\ pc \in {"allocated", "raised"}) =>
        /\ pc = "allocated"
        /\ AllocatedAs = {<<"a2", "quota">>, <<"a1", "general">>}
        /\ Len(final_allocations) = 2

C12_Witness == ScenarioA /\ pc = "allocated"

\* The inputs of Scenario E: apply_affirmative_action on one internship of
\* capacity 1 and one or more candidates, all of category general.
ScenarioE ==
    /\ RunStarted
    /\ call.op # "allocate_with_quotas"
    /\ internships = <<Internship("i1", 1)>>
    /\ Len(matches) >= 1
    /\ \A i \in 1..Len(matches) :
           /\ get_candidate_category(matches[i]) = "general"
           /\ matches[i].internship_id = "i1"

\* What _allocate_with_quotas computes in Scenario E: exactly one
\* allocation, of type general, for a candidate whose boosted score is the
\* highest of the run.
ScenarioEAllocation ==
    (ScenarioE /\ pc \in {"allocated", "raised", "returned"}) =>
        /\ Len(final_allocations) = 1
        /\ final_allocations[1].allocation_type = "general"
        /\ \A i \in 1..Len(boosted_matches) :
               final_allocations[1].final_score >= boosted_matches[i].score
        /\ \E i \in 1..Len(boosted_matches) :
               /\ boosted_matches[i].candidate_id
                      = final_allocations[1].candidate_id
               /\ boosted_matches[i].score = final_allocations[1].final_score

\* C13: the run of Scenario E produces exactly one allocation, of type
\* general, for the candidate with the highest boosted score.
C13_ScenarioE ==
    (ScenarioE /\ pc \in {"raised", "returned"}) =>
        /\ pc = "returned"
        /\ Len(result.final_allocations) = 1
        /\ result.final_allocations[1].allocation_type = "general"
        /\ \A i \in 1..Len(boosted_matches) :
               result.final_allocations[1].final_score
                   >= boosted_matches[i].score

\* The run has come to the end of _allocate_with_quotas or has raised.
RunOver == pc \in {"allocated", "raised", "returned"}

\* The run was rejected with a validation error and produced no allocation.
RejectedByValidation ==
    /\ pc = "raised"
    /\ result.error = "ValidationError"
    /\ final_allocations = <<>>

\* C14: a run handed an empty match list or an empty internship list fails
\* with a validation error before planning, boosting or allocating, and never
\* ends with an empty allocation as a success.
C14_EmptyInputRejected ==
    (RunOver /\ (matches = <<>> \/ internships = <<>>)) =>
        RejectedByValidation

\* C15: a run whose internship list holds an internship of capacity below 1
\* is rejected with a validation error before allocation begins, and no
\* allocation is produced.
C15_ZeroCapacityRejected ==
    (/\ RunOver
     /\ matches # <<>>
     /\ \E k \in 1..Len(internships) : internships[k].capacity < 1) =>
        RejectedByValidation

\* The candidate ids of the inputs in ascending (string) order.
CandidateIdOrder ==
    <<"a0", "a1", "a2", "a3", "a4", "a5", "c1", "c2", "c3", "c4", "c5", "c6", "c7",
      "k1", "k2", "k3">>

\* The position of a candidate id in the ascending order.
IdRank(candidate_id) ==
    CHOOSE k \in 1..Len(CandidateIdOrder) : CandidateIdOrder[k] = candidate_id

\* C17: the boosted list is ordered by boosted score descending and, among
\* records of equal boosted score, by candidate_id ascending.
C17_SortedWithIdTieBreak ==
    RunStarted =>
        \A i, j \in 1..Len(boosted_matches) :
            i < j =>
                \/ boosted_matches[i].score > boosted_matches[j].score
                \/ /\ boosted_matches[i].score = boosted_matches[j].score
                   /\ IdRank(boosted_matches[i].candidate_id)
                          <= IdRank(boosted_matches[j].candidate_id)

\* The invocation with locals f is over.
FrameOver(f) == f.pc \in {"allocated", "raised", "returned"}

\* The invocation with locals f, once over, holds what an uninterrupted
\* invocation on its inputs computes.
EndsAsAlone(f) ==
    FrameOver(f) =>
        LET alone == AllocateAlone(f.boosted_matches, f.quota_slots,
                                   f.internships, DOMAIN quotas)
        IN /\ f.final_allocations = alone.final_allocations
           /\ f.quota_filled = alone.quota_filled
           /\ f.internship_capacity_used = alone.internship_capacity_used
           /\ f.allocated_candidates = alone.allocated_candidates
           /\ alone.raised
                  = (f.result = [status |-> "raised", error |-> "KeyError"])

\* The step actions of a single run agree with AllocateAlone.
StepsAgreeWithAllocateAlone == EndsAsAlone(Frame)

C20_ConcurrentRunsIndependent ==
    EndsAsAlone(Frame) /\ EndsAsAlone(other)

C20_Witness ==
    /\ FrameOver(Frame)
    /\ FrameOver(other)
    /\ matches # other.matches
    /\ Len(final_allocations) = 2
    /\ Len(other.final_allocations) = 1

\* The run was handed the match records of the batch.
BatchRun == RunStarted /\ call.op = "batch_match_candidates"

\* The candidate document of the batch with the given id.
BatchCandidate(candidate_id) ==
    call.candidates[CHOOSE k \in 1..Len(call.candidates) :
                        call.candidates[k].id = candidate_id]

\* C18: in the pipeline the quota category the engine uses for a match
\* record is the one derived from the social category of the candidate's
\* profile, and the rural indicator of the profile reaches the booster.
C18_CategoryFromProfile ==
    BatchRun =>
        \A i \in 1..Len(boosted_matches) :
            LET profile == BatchCandidate(boosted_matches[i].candidate_id)
            IN /\ get_candidate_category(boosted_matches[i])
                      = get_candidate_category(profile)
               /\ Get(profile, "rural_background", FALSE) =>
                      boosted_matches[i].diversity_boost
                          >= diversity_boost["rural"]

\* The pairs of the batch that pass the eligibility test.
EligiblePairs ==
    {<<c, k>> \in (1..Len(call.candidates)) \X (1..Len(call.internships)) :
        check_basic_eligibility(call.candidates[c], call.internships[k])
            = "True"}

\* The records of the batch result for the pair <<c, k>>.
PairRecords(c, k) ==
    {i \in 1..Len(call.value) :
        /\ call.value[i].candidate_id = call.candidates[c].id
        /\ call.value[i].internship_id = call.internships[k].id}

\* C19: a failure for one pair never aborts the batch: every eligible pair
\* yields its match record, and a failed pair yields a record that carries
\* the neutral score 0.5.
C19_FailedPairGetsNeutralScore ==
    call.op = "batch_match_candidates" =>
        /\ ~call.raised
        /\ \A pair \in EligiblePairs :
               /\ Cardinality(PairRecords(pair[1], pair[2])) = 1
               /\ FormatCandidateCvRaises(call.candidates[pair[1]]) =>
                      \A i \in PairRecords(pair[1], pair[2]) :
                          call.value[i].score = 500

\* A report was made of a list that is not empty.
ReportMade == call.op = "generate_diversity_report" /\ call.arg # <<>>

\* The number of allocations of the reported list tagged with category c.
TaggedInReport(c) ==
    Cardinality({i \in 1..Len(call.arg) : call.arg[i].category = c})

\* floor(total_allocated * configured percentage) of the reported list.
ExpectedInReport(c) ==
    CHOOSE n \in 0..Len(call.arg) :
        /\ n * One <= Len(call.arg) * quotas[c]
        /\ (n + 1) * One > Len(call.arg) * quotas[c]

\* C21: in the compliance report every configured category has
\* expected_count = floor(total_allocated * percentage), actual_count = the
\* number of allocations tagged with it, and compliant exactly when
\* actual_count >= 0.9 * expected_count.
C21_ComplianceRule ==
    ReportMade =>
        \A c \in DOMAIN quotas :
            LET entry == call.value.quota_compliance[c]
            IN /\ entry.expected_count = ExpectedInReport(c)
               /\ entry.actual_count = TaggedInReport(c)
               /\ entry.compliant
                      <=> (10 * TaggedInReport(c) >= 9 * ExpectedInReport(c))

\* A category is compliant with fewer allocations than expected.
C21_Witness ==
    /\ ReportMade
    /\ \E c \in DOMAIN quotas :
           /\ call.value.quota_compliance[c].compliant
           /\ TaggedInReport(c) < ExpectedInReport(c)

\* The nine rural keywords.
RuralKeywords ==
    { <<"v","i","l","l","a","g","e">>,
      <<"r","u","r","a","l">>,
      <<"g","r","a","m">>,
      <<"t","e","h","s","i","l">>,
      <<"b","l","o","c","k">>,
      <<"m","a","n","d","a","l">>,
      <<"p","a","n","c","h","a","y","a","t">>,
      <<"a","g","r","i","c","u","l","t","u","r","a","l">>,
      <<"f","a","r","m","i","n","g">> }

\* The location of record r holds a rural keyword in any capitalisation.
HasRuralKeyword(r) ==
    \E k \in RuralKeywords : Contains(Lower(r.location), k)

\* The weight key of a recorded boost reason.
ReasonKey(reason) ==
    CASE reason = "Rural background" -> "rural"
      [] reason = "Gender diversity" -> "female"
      [] reason = "Person with disability" -> "pwd"
      [] reason = "First-generation learner" -> "first_generation"

\* The weights of the reasons recorded on record r, added up.
RecordedWeight(r) ==
    SumSeq([i \in 1..Len(r.boost_reasons) |->
               diversity_boost[ReasonKey(r.boost_reasons[i])]])

\* The rural reason is recorded once on record r.
RuralRecordedOnce(r) ==
    Cardinality({i \in 1..Len(r.boost_reasons) :
                    r.boost_reasons[i] = "Rural background"}) = 1

\* C22: a record whose location holds a rural keyword, in any
\* capitalisation, gets the rural weight added once and "Rural background"
\* recorded in boost_reasons; the recorded boosts and the added value are
\* kept whole when the clamp at 1.0 cuts the score.
C22_RuralKeywordBoost ==
    call.op = "apply_diversity_boosts" =>
        \A i \in 1..Len(boosted_matches) :
            LET r == boosted_matches[i]
            IN HasRuralKeyword(r) =>
                   /\ RuralRecordedOnce(r)
                   /\ r.diversity_boost = RecordedWeight(r)
                   /\ r.boosted_score
                          = Min(r.original_score + r.diversity_boost, One)

\* An upper-case keyword location without the flag, boosted and clamped.
C22_Witness ==
    /\ call.op = "apply_diversity_boosts"
    /\ \E i \in 1..Len(boosted_matches) :
           LET r == boosted_matches[i]
           IN /\ r.location = LocUpper
              /\ ~r.rural_background
              /\ RuralRecordedOnce(r)
              /\ r.original_score + r.diversity_boost > One
              /\ r.boosted_score = One

\* Phase 2 is about to look at a record.
Phase2Looks == pc = "phase2" /\ match_index <= Len(boosted_matches)

\* The candidate of the current record is unallocated and its internship
\* has capacity left (capacity 1 for an internship that is not listed).
CurrentIsFree ==
    /\ \A i \in 1..Len(final_allocations) :
           final_allocations[i].candidate_id # CurrentMatch.candidate_id
    /\ Cardinality({i \in 1..Len(final_allocations) :
                       final_allocations[i].internship_id
                           = CurrentMatch.internship_id})
           < get_internship_capacity(CurrentMatch.internship_id, internships)

\* Category c has a slot that is not filled.
SlotOpen(c) == quota_filled[c] < quota_slots[c]

\* Position i of the order sc, st, obc, ews is the first with an open slot.
FirstOpenAt(i) ==
    /\ SlotOpen(ReservedOrder[i])
    /\ \A j \in 1..(i - 1) : ~SlotOpen(ReservedOrder[j])

\* The step allocates the current record with the given type and counts it
\* on the given counter; the record is tagged with the candidate's own
\* category.
AllocatesAs(allocation_type, counter) ==
    /\ Len(final_allocations') = Len(final_allocations) + 1
    /\ SubSeq(final_allocations', 1, Len(final_allocations)) = final_allocations
    /\ LET a == final_allocations'[Len(final_allocations')]
       IN /\ a.candidate_id = CurrentMatch.candidate_id
          /\ a.internship_id = CurrentMatch.internship_id
          /\ a.allocation_type = allocation_type
          /\ a.category = get_candidate_category(CurrentMatch)
    /\ quota_filled' = [quota_filled EXCEPT ![counter] = @ + 1]

\* The step allocates nothing.
AllocatesNothing ==
    final_allocations' = final_allocations /\ quota_filled' = quota_filled

\* The decision rule of Phase 2 for the current record.
Phase2Rule ==
    IF ~CurrentIsFree THEN AllocatesNothing
    ELSE IF get_candidate_category(CurrentMatch) = "general" /\ SlotOpen("general")
    THEN AllocatesAs("general", "general")
    ELSE IF \E i \in 1..Len(ReservedOrder) : FirstOpenAt(i)
    THEN \E i \in 1..Len(ReservedOrder) :
             FirstOpenAt(i) /\ AllocatesAs("merit_in_quota", ReservedOrder[i])
    ELSE IF SlotOpen("general") THEN AllocatesAs("merit", "general")
    ELSE AllocatesNothing

\* C23: every Phase 2 step follows the decision rule: an unallocated
\* candidate whose internship has capacity left is allocated as general (a
\* general candidate while general slots remain), otherwise as
\* merit_in_quota into the first reserved category of sc, st, obc, ews with
\* an unfilled slot whatever the candidate's own category, otherwise as
\* merit while general slots remain, otherwise not at all.
C23_Phase2DecisionRule == [][Phase2Looks => Phase2Rule]_vars

\* A general candidate holds a reserved slot and the run went on.
C23_Witness ==
    /\ pc = "allocated"
    /\ \E i \in 1..Len(final_allocations) :
           /\ final_allocations[i].category = "general"
           /\ final_allocations[i].allocation_type = "merit_in_quota"
    /\ \E i \in 1..Len(final_allocations) :
           final_allocations[i].allocation_type = "general"

\* The position of a reserved category in the order sc, st, obc, ews.
ReservedRank(c) == CHOOSE i \in 1..Len(ReservedOrder) : ReservedOrder[i] = c

\* The quota category of the candidate of allocation a, read from the match
\* record the allocation was made from.
OwnCategory(a) ==
    LET m == CHOOSE j \in 1..Len(boosted_matches) :
                 /\ boosted_matches[j].candidate_id = a.candidate_id
                 /\ boosted_matches[j].internship_id = a.internship_id
    IN get_candidate_category(boosted_matches[m])

\* C24: an allocation of type quota is tagged with a reserved category that
\* is the candidate's own; while Phase 1 runs every allocation is of type
\* quota; in the allocation list the quota allocations come before every
\* other allocation and are grouped in the order sc, st, obc, ews.
C24_Phase1OrderAndMembership ==
    RunStarted =>
        /\ \A i \in 1..Len(final_allocations) :
               final_allocations[i].allocation_type = "quota" =>
                   /\ final_allocations[i].category
                          \in {"sc", "st", "obc", "ews"}
                   /\ final_allocations[i].category
                          = OwnCategory(final_allocations[i])
        /\ pc = "phase1" =>
               \A i \in 1..Len(final_allocations) :
                   final_allocations[i].allocation_type = "quota"
        /\ \A i, j \in 1..Len(final_allocations) :
               (i < j /\ final_allocations[j].allocation_type = "quota") =>
                   /\ final_allocations[i].allocation_type = "quota"
                   /\ ReservedRank(final_allocations[i].category)
                          <= ReservedRank(final_allocations[j].category)

\* A finished run with quota allocations of three categories, the list
\* scanning them out of category order, and a Phase 2 allocation behind.
C24_Witness ==
    /\ pc = "allocated"
    /\ Cardinality({final_allocations[i].category :
                       i \in {j \in 1..Len(final_allocations) :
                                 final_allocations[j].allocation_type
                                     = "quota"}}) >= 3
    /\ final_allocations[Len(final_allocations)].allocation_type # "quota"
    /\ \E i, j \in 1..Len(boosted_matches) :
           /\ i < j
           /\ get_candidate_category(boosted_matches[i]) = "ews"
           /\ get_candidate_category(boosted_matches[j]) = "st"

\* Every filled counter lies between 0 and the slot count of its category
\* (0 for a category the plan does not name).
CountersWithinPlan ==
    \A c \in DOMAIN quota_filled :
        /\ quota_filled[c] >= 0
        /\ quota_filled[c] <= Get(quota_slots, c, 0)

\* No filled counter goes down in a step of a run.
CountersNeverDecrease ==
    RunStarted =>
        \A c \in DOMAIN quota_filled : quota_filled'[c] >= quota_filled[c]

\* C25: in every state of an allocation run every filled counter is between
\* 0 and the slot count of its category in the plan, and no step of the run
\* lowers a counter.
C25_CountersBounded ==
    [](RunStarted => CountersWithinPlan) /\ [][CountersNeverDecrease]_vars

\* A finished run in which the slot count stopped Phase 1: a reserved
\* category is filled by quota allocations and a further candidate of that
\* category was placed in Phase 2, and the general slots are filled too.
C25_Witness ==
    /\ pc = "allocated"
    /\ quota_filled["general"] = quota_slots["general"]
    /\ \E c \in {"sc", "st", "obc", "ews"} :
           /\ quota_filled[c] = quota_slots[c]
           /\ TaggedCount(c, {"quota"}) = quota_slots[c]
           /\ TaggedCount(c, {"merit_in_quota"}) >= 1

\* The four tallies of a run agree.
TalliesAgree ==
    /\ Len(final_allocations) = Cardinality(allocated_candidates)
    /\ Len(final_allocations) = SumValues(quota_filled)
    /\ Len(final_allocations) = SumValues(internship_capacity_used)

\* The run stopped on a KeyError.
StoppedOnKeyError == pc = "raised" /\ result.error = "KeyError"

\* C26: in every state of an allocation run the number of allocations, the
\* size of the allocated-candidate set, the sum of the filled counters and
\* the sum of the used-capacity counters are equal.
C26_TalliesAgree == RunStarted => TalliesAgree

\* The tallies agree in every state of a run but the one a KeyError leaves.
TalliesAgreeUnlessKeyError ==
    (RunStarted /\ ~StoppedOnKeyError) => TalliesAgree

\* Match record j could still be placed: its candidate is unallocated, its
\* internship has capacity left and some category has an unfilled slot.
CouldStillBePlaced(j) ==
    /\ boosted_matches[j].candidate_id \notin allocated_candidates
    /\ Get(internship_capacity_used, boosted_matches[j].internship_id, 0)
           < get_internship_capacity(boosted_matches[j].internship_id,
                                     internships)
    /\ \E c \in DOMAIN quota_filled : quota_filled[c] < Get(quota_slots, c, 0)

\* C27: when an allocation run has ended, no match record is left whose
\* candidate is unallocated and whose internship has capacity left while
\* some category has an unfilled slot.
C27_MaximalAtTermination ==
    pc \in {"allocated", "raised", "returned"} =>
        \A j \in 1..Len(boosted_matches) : ~CouldStillBePlaced(j)

\* The same for the runs that do not stop on a KeyError.
MaximalUnlessKeyError ==
    (pc \in {"allocated", "raised", "returned"} /\ ~StoppedOnKeyError) =>
        \A j \in 1..Len(boosted_matches) : ~CouldStillBePlaced(j)

\* Some match record names an internship that is not in the internship list.
UnlistedInternshipMatched ==
    \E j \in 1..Len(boosted_matches) :
        boosted_matches[j].internship_id \notin InternshipIds

\* C29: a run with a match for an internship that is not in the internship
\* list does not stop on an error of the allocation, and gives that
\* internship at most one candidate.
C29_UnlistedInternshipHasCapacityOne ==
    (RunStarted /\ UnlistedInternshipMatched) =>
        /\ ~StoppedOnKeyError
        /\ \A id \in {boosted_matches[j].internship_id :
                          j \in 1..Len(boosted_matches)} \ InternshipIds :
               Cardinality({i \in 1..Len(final_allocations) :
                               final_allocations[i].internship_id = id}) <= 1

\* No run ever records more than one allocation for an unlisted internship.
UnlistedInternshipAtMostOnce ==
    RunStarted =>
        \A id \in {boosted_matches[j].internship_id :
                       j \in 1..Len(boosted_matches)} \ InternshipIds :
            Cardinality({i \in 1..Len(final_allocations) :
                            final_allocations[i].internship_id = id}) <= 1

\* Candidate x holds a quota allocation.
HoldsQuota(x) ==
    \E i \in 1..Len(final_allocations) :
        /\ final_allocations[i].candidate_id = x
        /\ final_allocations[i].allocation_type = "quota"

\* Match record j is of another candidate of the category of allocation y,
\* for the internship of y, with a strictly higher boosted score.
OutranksOnSameInternship(j, y) ==
    /\ boosted_matches[j].candidate_id # y.candidate_id
    /\ boosted_matches[j].internship_id = y.internship_id
    /\ get_candidate_category(boosted_matches[j]) = y.category
    /\ boosted_matches[j].score > y.final_score

\* C28: when a candidate of a reserved category holds a quota allocation to
\* an internship, every candidate of that category with a match for the same
\* internship of strictly higher boosted score holds a quota allocation too.
C28_NoJustifiedEnvyInPhase1 ==
    RunStarted =>
        \A i \in 1..Len(final_allocations) :
            final_allocations[i].allocation_type = "quota" =>
                \A j \in 1..Len(boosted_matches) :
                    OutranksOnSameInternship(j, final_allocations[i])
                        => HoldsQuota(boosted_matches[j].candidate_id)

\* Two candidates of one category hold quota allocations to one internship,
\* the second with a lower boosted score than the first.
C28_Witness ==
    /\ pc = "allocated"
    /\ \E i \in 1..Len(final_allocations), j \in 1..Len(boosted_matches) :
           /\ final_allocations[i].allocation_type = "quota"
           /\ OutranksOnSameInternship(j, final_allocations[i])
           /\ HoldsQuota(boosted_matches[j].candidate_id)

\* The type of every allocation is one of the four, a general allocation is
\* held by a general candidate, a merit allocation by a reserved one.
TypesCoherent ==
    \A i \in 1..Len(final_allocations) :
        LET a == final_allocations[i]
        IN /\ a.allocation_type
                  \in {"quota", "merit_in_quota", "merit", "general"}
           /\ a.allocation_type = "general" => OwnCategory(a) = "general"
           /\ a.allocation_type = "merit"
                  => OwnCategory(a) \in {"sc", "st", "obc", "ews"}

\* A step that adds a merit allocation starts with every reserved category
\* filled.
MeritOnlyWhenReservedFilled ==
    (/\ RunStarted
     /\ Len(final_allocations') = Len(final_allocations) + 1
     /\ final_allocations'[Len(final_allocations')].allocation_type = "merit")
        => \A c \in {"sc", "st", "obc", "ews"} :
               quota_filled[c] >= Get(quota_slots, c, 0)

\* C30: every allocation_type is one of quota, merit_in_quota, merit,
\* general; a general allocation goes to a candidate whose category is
\* general; a merit allocation goes to a candidate of a reserved category
\* and is made only when every reserved category's slots are filled.
C30_TypeAndCategoryCoherent ==
    [](RunStarted => TypesCoherent) /\ [][MeritOnlyWhenReservedFilled]_vars

\* A finished run that made a merit allocation.
C30_Witness ==
    /\ pc = "allocated"
    /\ \E i \in 1..Len(final_allocations) :
           /\ final_allocations[i].allocation_type = "merit"
           /\ final_allocations[i].category # "general"
    /\ \A c \in {"sc", "st", "obc", "ews"} : quota_filled[c] = quota_slots[c]

====
